---- MODULE Spec2Model ----
(***************************************************************************)
(* Gorgon Desktop backend (src-tauri): the Tauri command surface for       *)
(* filesystem access (commands.rs) and for git operations (git.rs).        *)
(*                                                                         *)
(* Strings are sequences of one-character strings, so that lower-casing,   *)
(* substring search, path splitting and hex truncation are computed.       *)
(***************************************************************************)
EXTENDS Integers, Sequences, FiniteSets, TLC

VARIABLES
    fs,     \* the filesystem: node key (sequence of component names) -> node
    repo,   \* the git repository on disk together with its remote
    pre,    \* [fs, repo] as they were when the last command was invoked
    call,   \* the last command invoked and its arguments
    ret     \* what the last command returned (a Result) and the primitives it ran

vars == <<fs, repo, pre, call, ret>>

\* ------------------------------------------------------------------------
\* Characters and strings
\* ------------------------------------------------------------------------

UpperCase == <<"A","B","C","D","E","F","G","H","I","J","K","L","M",
               "N","O","P","Q","R","S","T","U","V","W","X","Y","Z">>
LowerCase == <<"a","b","c","d","e","f","g","h","i","j","k","l","m",
               "n","o","p","q","r","s","t","u","v","w","x","y","z">>

\* The characters in code-point order: '.', '/', digits, 'A'-'Z', '_', 'a'-'z'.
CodeOrder == <<".", "/">> \o <<"0","1","2","3","4","5","6","7","8","9">>
             \o UpperCase \o <<"_">> \o LowerCase

CodePoint(ch) == CHOOSE i \in 1..Len(CodeOrder) : CodeOrder[i] = ch

\* char::to_lowercase on the characters above
LowerChar(ch) ==
    IF \E i \in 1..Len(UpperCase) : UpperCase[i] = ch
    THEN LowerCase[CHOOSE i \in 1..Len(UpperCase) : UpperCase[i] = ch]
    ELSE ch

\* str::to_lowercase
to_lowercase(s) == [i \in 1..Len(s) |-> LowerChar(s[i])]

\* str::contains(pattern)
contains(s, pat) ==
    \E i \in 0..(Len(s) - Len(pat)) : SubSeq(s, i + 1, i + Len(pat)) = pat

\* Ord::cmp on strings: byte-wise lexicographic; "Less", "Equal" or "Greater"
RECURSIVE str_cmp(_, _)
str_cmp(a, b) ==
    IF a = <<>> /\ b = <<>> THEN "Equal"
    ELSE IF a = <<>> THEN "Less"
    ELSE IF b = <<>> THEN "Greater"
    ELSE IF CodePoint(Head(a)) < CodePoint(Head(b)) THEN "Less"
    ELSE IF CodePoint(Head(a)) > CodePoint(Head(b)) THEN "Greater"
    ELSE str_cmp(Tail(a), Tail(b))

\* ------------------------------------------------------------------------
\* The inputs and the bounds of the filesystem model
\* ------------------------------------------------------------------------

Sep == "/"

MaxDepth == 3      \* directory levels the generated paths reach
MaxNodes == 5      \* nodes the filesystem holds at most (the root included)

\* names of the entries of the root, and of the entries below it
Names == {<<"a">>, <<"B">>, <<"a","b">>}
SubNames == {<<"a">>, <<"B">>}

RECURSIVE path_of(_)
path_of(k) == IF k = <<>> THEN <<>> ELSE <<Sep>> \o Head(k) \o path_of(Tail(k))

GeneratedKeys ==
    {k \in UNION {[1..n -> Names] : n \in 1..MaxDepth} :
        \A i \in 2..Len(k) : k[i] \in SubNames}

GeneratedPaths == {path_of(k) : k \in GeneratedKeys}

\* paths that name their last component with a trailing separator
TrailingProbes ==
    { <<"/","a","/">>,              \* /a/
      <<"/","a","/","B","/">> }     \* /a/B/

\* one path per denylisted pattern, in mixed case, and a sensitive file that
\* exists before the program runs
EnvFile == <<"/",".","E","n","v">>  \* /.Env
DeniedProbes ==
    { <<"/","a","/",".","S","S","H","/","B">>,          \* /a/.SSH/B
      <<"/",".","G","n","u","P","G","/","a">>,          \* /.GnuPG/a
      <<"/","a","/",".","C","o","n","f","i","g","/","B">>,  \* /a/.Config/B
      <<"/","E","t","c","/","a">>,                      \* /Etc/a
      <<"/","a","/",".","E","N","V">>,                  \* /a/.ENV
      <<"/","a","/","B",".","e","n","v">>,              \* /a/B.env
      <<"/","a","/","C","r","e","d","e","n","t","i","a","l","s">>,  \* /a/Credentials
      <<"/","a","/","B","_","c","r","e","d","e","n","t","i","a","l","s",
        ".","J","S","O","N">>,                          \* /a/B_credentials.JSON
      <<"/","S","e","c","r","e","t","s","/","a">>,      \* /Secrets/a
      EnvFile }

InputPaths == {<<Sep>>} \cup GeneratedPaths \cup TrailingProbes \cup DeniedProbes

Contents == {<<>>, <<"x","y">>}

\* ------------------------------------------------------------------------
\* Path Guard (commands.rs, validate_path)
\* ------------------------------------------------------------------------

blocked_patterns ==
    << <<"/",".","s","s","h","/">>,
       <<"/",".","g","n","u","p","g","/">>,
       <<"/",".","c","o","n","f","i","g","/">>,
       <<"/","e","t","c","/">>,
       <<"/",".","e","n","v">>,
       <<".","e","n","v">>,
       <<"/","c","r","e","d","e","n","t","i","a","l","s">>,
       <<"c","r","e","d","e","n","t","i","a","l","s",".","j","s","o","n">>,
       <<"/","s","e","c","r","e","t","s">> >>

\* Results: ok, the error variant ("" when ok), its message key, the value
Ok(v) == [ok |-> TRUE, err |-> "", msg |-> <<>>, val |-> v]
Err(kind, m) == [ok |-> FALSE, err |-> kind, msg |-> m, val |-> <<>>]
Unit == <<>>

\* The first pattern, in listed order, that the lower-cased path contains
check_path(path) ==
    LET path_str == to_lowercase(path)
        hits == {k \in 1..Len(blocked_patterns) :
                    contains(path_str, blocked_patterns[k])}
    IN  IF hits = {} THEN Ok(Unit)
        ELSE Err("NotAllowed",
                 blocked_patterns[CHOOSE k \in hits : \A j \in hits : k <= j])

\* validate_path that compares without lower-casing the path
validate_path_case_sensitive(path) ==
    LET hits == {k \in 1..Len(blocked_patterns) :
                    contains(path, blocked_patterns[k])}
    IN  IF hits = {} THEN Ok(Unit)
        ELSE Err("NotAllowed",
                 blocked_patterns[CHOOSE k \in hits : \A j \in hits : k <= j])

\* validate_path on the inputs of the model, computed once per path
GuardOf == [p \in InputPaths |-> check_path(p)]
validate_path(path) == GuardOf[path]

\* ------------------------------------------------------------------------
\* Paths (std::path::Path) and the filesystem (std::fs)
\* ------------------------------------------------------------------------

\* Path::components of an absolute path: the non-empty segments between
\* separators (repeated and trailing separators are dropped)
RECURSIVE split(_, _, _)
split(s, cur, acc) ==
    IF s = <<>> THEN (IF cur = <<>> THEN acc ELSE Append(acc, cur))
    ELSE IF Head(s) = Sep
         THEN split(Tail(s), <<>>, IF cur = <<>> THEN acc ELSE Append(acc, cur))
         ELSE split(Tail(s), Append(cur, Head(s)), acc)

ComponentsOf == [p \in InputPaths |-> split(p, <<>>, <<>>)]
components(path) == ComponentsOf[path]

\* the path names its last component with a separator after it ("/a/f/")
trailing_sep(path) ==
    /\ components(path) # <<>>
    /\ path[Len(path)] = Sep

Front(s) == SubSeq(s, 1, Len(s) - 1)

\* Path::parent: None (has |-> FALSE) for the root
parent(path) ==
    LET k == components(path)
    IN  IF k = <<>> THEN [has |-> FALSE, key |-> <<>>]
        ELSE [has |-> TRUE, key |-> Front(k)]

\* PathBuf::join of a directory path and a child name
join(path, name) ==
    (IF path[Len(path)] = Sep THEN path ELSE Append(path, Sep)) \o name

Root == <<>>
DirNode == [dir |-> TRUE, data |-> <<>>]
FileNode(content) == [dir |-> FALSE, data |-> content]

IsPrefix(a, b) == Len(a) <= Len(b) /\ SubSeq(b, 1, Len(a)) = a

\* what a path resolves to: a trailing separator resolves only to a directory
Resolves(f, path) ==
    LET k == components(path)
    IN  k \in DOMAIN f /\ (trailing_sep(path) => f[k].dir)

\* Path::exists and Path::is_dir
path_exists(f, path) == Resolves(f, path)
is_dir(f, path) == Resolves(f, path) /\ f[components(path)].dir

\* fs::create_dir in its place: only the last directory is made, and only
\* below a directory that exists
create_dir_only(f, k) ==
    IF k \in DOMAIN f
    THEN [fs |-> f, res |-> IF f[k].dir THEN Ok(Unit) ELSE Err("Io", <<>>),
          made |-> 0]
    ELSE IF Front(k) \in DOMAIN f /\ f[Front(k)].dir
    THEN [fs |-> [n \in DOMAIN f \cup {k} |->
                      IF n \in DOMAIN f THEN f[n] ELSE DirNode],
          res |-> Ok(Unit), made |-> 1]
    ELSE [fs |-> f, res |-> Err("Io", <<>>), made |-> 0]

\* fs::create_dir_all on the directory with key k: every missing ancestor and
\* the directory itself are made; an existing directory is success; a regular
\* file in the way is an error, found before anything is made
create_dir_all(f, k) ==
    LET blocked == \E i \in 1..Len(k) :
                       SubSeq(k, 1, i) \in DOMAIN f /\ ~f[SubSeq(k, 1, i)].dir
        missing == {SubSeq(k, 1, i) : i \in 1..Len(k)} \ DOMAIN f
    IN  IF blocked
        THEN [fs |-> f, res |-> Err("Io", <<>>), made |-> 0]
        ELSE [fs |-> [n \in DOMAIN f \cup missing |->
                          IF n \in DOMAIN f THEN f[n] ELSE DirNode],
              res |-> Ok(Unit), made |-> Cardinality(missing)]

\* fs::write: create or truncate the file and write all of the content
fs_write(f, path, content) ==
    LET k == components(path)
        can == /\ k # <<>>
               /\ ~trailing_sep(path)
               /\ Front(k) \in DOMAIN f
               /\ f[Front(k)].dir
               /\ (k \in DOMAIN f => ~f[k].dir)
    IN  IF can
        THEN [fs |-> [n \in DOMAIN f \cup {k} |->
                          IF n = k THEN FileNode(content) ELSE f[n]],
              res |-> Ok(Unit)]
        ELSE [fs |-> f, res |-> Err("Io", <<>>)]

\* fs::read_to_string
read_to_string(f, path) ==
    IF Resolves(f, path) /\ ~f[components(path)].dir
    THEN Ok(f[components(path)].data)
    ELSE Err("Io", <<>>)

\* fs::remove_file
remove_file(f, path) ==
    LET k == components(path)
    IN  IF Resolves(f, path) /\ ~f[k].dir
        THEN [fs |-> [n \in DOMAIN f \ {k} |-> f[n]], res |-> Ok(Unit)]
        ELSE [fs |-> f, res |-> Err("Io", <<>>)]

\* fs::remove_dir_all on a directory: the contents go first, the directory
\* last; the root itself cannot be removed, so there the call ends in an
\* error with the contents gone
remove_dir_all(f, path) ==
    LET k == components(path)
        below == {n \in DOMAIN f : IsPrefix(k, n) /\ n # k}
    IN  IF k = Root
        THEN [fs |-> [n \in {Root} |-> f[n]], res |-> Err("Io", <<>>)]
        ELSE [fs |-> [n \in DOMAIN f \ (below \cup {k}) |-> f[n]],
              res |-> Ok(Unit)]

\* the names fs::read_dir yields for a directory (in no particular order)
children(f, k) ==
    {n[Len(n)] : n \in {m \in DOMAIN f : Len(m) = Len(k) + 1 /\ IsPrefix(k, m)}}

\* ------------------------------------------------------------------------
\* File commands (commands.rs)
\* ------------------------------------------------------------------------

\* a command's Result together with the std::fs / git2 primitives it ran
Ran(res, prims) ==
    [ok |-> res.ok, err |-> res.err, msg |-> res.msg, val |-> res.val,
     prims |-> prims]

read_file(f, path) ==
    LET v == validate_path(path)
    IN  IF ~v.ok THEN [fs |-> f, ret |-> Ran(v, <<>>)]
        ELSE [fs |-> f,
              ret |-> Ran(read_to_string(f, path), <<"read_to_string">>)]

write_file(f, path, content) ==
    LET v == validate_path(path)
        par == parent(path)
        d == IF par.has THEN create_dir_all(f, par.key)
             ELSE [fs |-> f, res |-> Ok(Unit), made |-> 0]
        ran == IF par.has THEN <<"create_dir_all">> ELSE <<>>
        w == fs_write(d.fs, path, content)
    IN  IF ~v.ok THEN [fs |-> f, ret |-> Ran(v, <<>>)]
        ELSE IF ~d.res.ok THEN [fs |-> d.fs, ret |-> Ran(d.res, ran)]
        ELSE [fs |-> w.fs, ret |-> Ran(w.res, Append(ran, "write"))]

DirectoryEntry(f, path, name) ==
    [name |-> name,
     path |-> join(path, name),
     is_directory |-> f[Append(components(path), name)].dir]

\* the comparator without the lower-casing of the names
entry_cmp_raw(a, b) ==
    IF a.is_directory /\ ~b.is_directory THEN "Less"
    ELSE IF ~a.is_directory /\ b.is_directory THEN "Greater"
    ELSE str_cmp(a.name, b.name)

\* the comparator given to sort_by: directories first, then by lower-cased name
entry_cmp(a, b) ==
    IF a.is_directory /\ ~b.is_directory THEN "Less"
    ELSE IF ~a.is_directory /\ b.is_directory THEN "Greater"
    ELSE str_cmp(to_lowercase(a.name), to_lowercase(b.name))

\* slice::sort_by is a stable sort: equal entries keep their order
insert_entry(acc, x) ==
    LET gt == {i \in 1..Len(acc) : entry_cmp(acc[i], x) = "Greater"}
        pos == IF gt = {} THEN Len(acc) + 1
               ELSE CHOOSE i \in gt : \A j \in gt : i <= j
    IN  SubSeq(acc, 1, pos - 1) \o <<x>> \o SubSeq(acc, pos, Len(acc))

RECURSIVE sort_by(_)
sort_by(s) ==
    IF s = <<>> THEN <<>> ELSE insert_entry(sort_by(Front(s)), s[Len(s)])

\* order: the names in the order fs::read_dir yields them
list_directory(f, path, order) ==
    LET v == validate_path(path)
        entries == [i \in 1..Len(order) |-> DirectoryEntry(f, path, order[i])]
    IN  IF ~v.ok THEN [fs |-> f, ret |-> Ran(v, <<>>)]
        ELSE IF ~is_dir(f, path)
        THEN [fs |-> f, ret |-> Ran(Err("Io", <<>>), <<"read_dir">>)]
        ELSE [fs |-> f, ret |-> Ran(Ok(sort_by(entries)), <<"read_dir">>)]

file_exists(f, path) ==
    [fs |-> f, ret |-> Ran(Ok(path_exists(f, path)), <<"exists">>)]

create_directory(f, path) ==
    LET v == validate_path(path)
        d == create_dir_all(f, components(path))
    IN  IF ~v.ok THEN [fs |-> f, ret |-> Ran(v, <<>>)]
        ELSE [fs |-> d.fs, ret |-> Ran(d.res, <<"create_dir_all">>)]

delete_file(f, path) ==
    LET v == validate_path(path)
        rd == remove_dir_all(f, path)
        rf == remove_file(f, path)
    IN  IF ~v.ok THEN [fs |-> f, ret |-> Ran(v, <<>>)]
        ELSE IF is_dir(f, path)
        THEN [fs |-> rd.fs, ret |-> Ran(rd.res, <<"is_dir", "remove_dir_all">>)]
        ELSE [fs |-> rf.fs, ret |-> Ran(rf.res, <<"is_dir", "remove_file">>)]

Perms(S) == {s \in [1..Cardinality(S) -> S] : \A i, j \in DOMAIN s : s[i] = s[j] => i = j}

NoRepo == [none |-> TRUE]

\* between commands nothing is remembered: the command surface is stateless
NoCall == [op |-> "none"]
NoPre == [none |-> TRUE]
NoRet == Ran(Ok(Unit), <<>>)
Idle == call = NoCall

InitFs ==
    /\ fs = [n \in {Root, components(EnvFile)} |->
                IF n = Root THEN DirNode ELSE FileNode(<<"x","y">>)]
    /\ repo = NoRepo
    /\ pre = NoPre
    /\ call = NoCall
    /\ ret = NoRet

\* a file command runs to completion: c is the request, out what the handler
\* computes from the filesystem it finds
FsInvoke(c, out) ==
    /\ Idle
    /\ Cardinality(DOMAIN out.fs) <= MaxNodes
    /\ pre' = [fs |-> fs, repo |-> repo]
    /\ call' = c
    /\ fs' = out.fs
    /\ ret' = out.ret
    /\ UNCHANGED repo

\* the result is serialized to the caller and the command is over
Respond ==
    /\ ~Idle
    /\ pre' = NoPre
    /\ call' = NoCall
    /\ ret' = NoRet
    /\ UNCHANGED <<fs, repo>>

ReadFile ==
    \E path \in InputPaths :
        FsInvoke([op |-> "read_file", path |-> path], read_file(fs, path))

WriteFile ==
    \E path \in InputPaths, content \in Contents :
        FsInvoke([op |-> "write_file", path |-> path, content |-> content],
                 write_file(fs, path, content))

ListDirectory ==
    \E path \in InputPaths :
        \E order \in Perms(IF is_dir(fs, path)
                           THEN children(fs, components(path)) ELSE {}) :
            FsInvoke([op |-> "list_directory", path |-> path, order |-> order],
                     list_directory(fs, path, order))

FileExists ==
    \E path \in InputPaths :
        FsInvoke([op |-> "file_exists", path |-> path], file_exists(fs, path))

CreateDirectory ==
    \E path \in InputPaths :
        FsInvoke([op |-> "create_directory", path |-> path],
                 create_directory(fs, path))

DeleteFile ==
    \E path \in InputPaths :
        FsInvoke([op |-> "delete_file", path |-> path], delete_file(fs, path))

NextFs ==
    \/ ReadFile
    \/ WriteFile
    \/ ListDirectory
    \/ FileExists
    \/ CreateDirectory
    \/ DeleteFile
    \/ Respond

SpecFs == InitFs /\ [][NextFs]_vars

\* ------------------------------------------------------------------------
\* Properties of the file commands
\* ------------------------------------------------------------------------

\* the lower-cased path contains one of the denylisted substrings
Denylisted(path) ==
    \E k \in 1..Len(blocked_patterns) :
        contains(to_lowercase(path), blocked_patterns[k])

Guarded == {"read_file", "write_file", "create_directory", "delete_file"}

\* C1: on a path whose lower-cased form contains a denylisted substring,
\* read_file, write_file, create_directory and delete_file return the
\* not-allowed error without having run any filesystem primitive, and the
\* filesystem is what it was; file_exists on such a path is not rejected and
\* returns a boolean.
C1_GuardRejects ==
    /\ (call.op \in Guarded /\ Denylisted(call.path)) =>
           /\ ~ret.ok
           /\ ret.err = "NotAllowed"
           /\ ret.prims = <<>>
           /\ fs = pre.fs
    /\ (call.op = "file_exists" /\ Denylisted(call.path)) =>
           /\ ret.ok
           /\ ret.val \in BOOLEAN

\* a read of the sensitive file that exists was rejected
C1_Witness ==
    /\ call.op = "read_file"
    /\ call.path = EnvFile
    /\ components(EnvFile) \in DOMAIN fs
    /\ ret.err = "NotAllowed"

\* C2: no command has partial success: whenever a command returns an error,
\* the filesystem and the repository are exactly what they were before the
\* call, whichever of its steps failed.
C2_NoPartialSuccess ==
    (~Idle /\ ~ret.ok) => (fs = pre.fs /\ repo = pre.repo)

\* the ancestors of the node with key k, the root excluded
Ancestors(k) == {SubSeq(k, 1, i) : i \in 1..(Len(k) - 1)}

\* what a read_file on the path returns now
ReadBack(path) == read_file(fs, path).ret

\* C7 as stated: for a non-denylisted path whose parent directories do not
\* exist, write_file succeeds, every parent directory exists afterwards and a
\* following read_file returns exactly the written content; writing to an
\* existing file replaces its content in full.
C7_WriteCreatesParents ==
    LET k == components(call.path)
    IN  /\ (/\ call.op = "write_file"
            /\ ~Denylisted(call.path)
            /\ k # Root
            /\ Front(k) \notin DOMAIN pre.fs) =>
               /\ ret.ok
               /\ \A a \in Ancestors(k) : a \in DOMAIN fs /\ fs[a].dir
               /\ ReadBack(call.path).ok
               /\ ReadBack(call.path).val = call.content
        /\ (/\ call.op = "write_file"
            /\ ~Denylisted(call.path)
            /\ read_file(pre.fs, call.path).ret.ok) =>
               /\ ret.ok
               /\ ReadBack(call.path).ok
               /\ ReadBack(call.path).val = call.content

\* C7 (amended): the same, for a path that does not end in a separator and
\* has no regular file among its ancestors.
C7_WriteCreatesParentsAmended ==
    LET k == components(call.path)
    IN  /\ (/\ call.op = "write_file"
            /\ ~Denylisted(call.path)
            /\ k # Root
            /\ Front(k) \notin DOMAIN pre.fs
            /\ ~trailing_sep(call.path)
            /\ \A a \in Ancestors(k) : a \in DOMAIN pre.fs => pre.fs[a].dir) =>
               /\ ret.ok
               /\ \A a \in Ancestors(k) : a \in DOMAIN fs /\ fs[a].dir
               /\ ReadBack(call.path).ok
               /\ ReadBack(call.path).val = call.content
        /\ (/\ call.op = "write_file"
            /\ ~Denylisted(call.path)
            /\ read_file(pre.fs, call.path).ret.ok) =>
               /\ ret.ok
               /\ ReadBack(call.path).ok
               /\ ReadBack(call.path).val = call.content

\* a write three levels down made both missing parents
C7_Witness ==
    /\ call.op = "write_file"
    /\ ret.ok
    /\ Len(components(call.path)) = 3
    /\ Ancestors(components(call.path)) \cap DOMAIN pre.fs = {}
    /\ call.content # <<>>

\* a <= b in byte-wise lexicographic order
LexLeq(a, b) ==
    \/ a = b
    \/ \E i \in 1..Len(b) :
           /\ i <= Len(a) + 1
           /\ SubSeq(a, 1, i - 1) = SubSeq(b, 1, i - 1)
           /\ (i = Len(a) + 1 \/ CodePoint(a[i]) < CodePoint(b[i]))

\* C8: list_directory returns exactly the immediate children of the
\* directory, each once, every subdirectory before every file, and within
\* the subdirectories and within the files in case-insensitive lexicographic
\* order of name.
C8_ListOrdered ==
    (call.op = "list_directory" /\ ret.ok) =>
        LET es == ret.val
            k == components(call.path)
        IN  /\ {es[i].name : i \in 1..Len(es)} = children(pre.fs, k)
            /\ Len(es) = Cardinality(children(pre.fs, k))
            /\ \A i \in 1..Len(es) :
                   es[i].is_directory = pre.fs[Append(k, es[i].name)].dir
            /\ \A i, j \in 1..Len(es) :
                   i < j =>
                       /\ es[j].is_directory => es[i].is_directory
                       /\ (es[i].is_directory = es[j].is_directory) =>
                              LexLeq(to_lowercase(es[i].name),
                                     to_lowercase(es[j].name))

\* a listing of subdirectories and files in which "B" and "a" both occur and
\* which read_dir yielded in another order than the one returned
C8_Witness ==
    /\ call.op = "list_directory"
    /\ ret.ok
    /\ Len(ret.val) >= 3
    /\ \E i, j \in 1..Len(ret.val) :
           ret.val[i].is_directory /\ ~ret.val[j].is_directory
    /\ \E i, j \in 1..Len(ret.val) :
           /\ i < j
           /\ ret.val[i].name = <<"a">>
           /\ ret.val[j].name = <<"B">>
           /\ ret.val[i].is_directory = ret.val[j].is_directory
    /\ [i \in 1..Len(ret.val) |-> ret.val[i].name] # call.order

\* ------------------------------------------------------------------------
\* The git repository (git2::Repository) and its remote
\* ------------------------------------------------------------------------

MaxCommits == 3    \* commits the object store holds at most

\* snapshots of the tracked content, by tree id; the first is the empty tree
EmptyTree == "tree0"
Trees == {EmptyTree, "tree1"}
BranchNames == {"main", "feature"}
RepoDir == "/repo"
RepoPaths == {RepoDir, "/tmp"}
None == "None"
NoCommit == 0

\* a commit is its position in repo.commits; the store is shared with the
\* remote, and a commit's time is the moment it was created
Commit(par, tree, time, message, author) ==
    [parent |-> par, tree |-> tree, time |-> time,
     message |-> message, author |-> author]

\* Oid::to_string: 40 hexadecimal digits
HexDigits == <<"0","1","2","3","4","5","6","7","8","9","a","b","c","d","e","f">>
OidLen == 40
oid_to_string(c) == [i \in 1..OidLen |-> HexDigits[((c * i) % 16) + 1]]

\* the commits from c back to the root, c first
RECURSIVE History(_, _)
History(r, c) ==
    IF c = NoCommit THEN <<>>
    ELSE <<c>> \o History(r, r.commits[c].parent)

Range(s) == {s[i] : i \in 1..Len(s)}

\* a is d or an ancestor of d
Reaches(r, d, a) == a \in Range(History(r, d))

\* repo.head(): the branch HEAD names and the commit it resolves to; an
\* error while that branch has no commit (unborn)
HeadCommit(r) == r.heads[r.head]
TreeOf(r, c) == IF c = NoCommit THEN EmptyTree ELSE r.commits[c].tree

\* Repository::discover
open_repo(path) == IF path = RepoDir THEN Ok(Unit) ELSE Err("NoRepository", <<>>)

\* ------------------------------------------------------------------------
\* Git operations (git.rs) and their commands (commands.rs)
\* ------------------------------------------------------------------------

\* author: the configured user name
UserName == "me"

\* create_commit that writes the commit without updating HEAD
create_commit_detached(r, message) ==
    LET made == Commit(HeadCommit(r), r.index, Len(r.commits) + 1, message,
                       UserName)
    IN  IF ~r.identity
        THEN [repo |-> r,
              ret |-> Ran(Err("Custom", "Git user not configured"), <<"signature">>)]
        ELSE IF HeadCommit(r) = NoCommit
        THEN [repo |-> r,
              ret |-> Ran(Err("Git", <<>>), <<"signature", "write_tree", "head">>)]
        ELSE [repo |-> [r EXCEPT !.commits = Append(@, made)],
              ret |-> Ran(Ok(oid_to_string(Len(r.commits) + 1)),
                          <<"signature", "write_tree", "head", "commit">>)]

create_commit(r, message) ==
    LET tree_id == r.index
        head_commit == HeadCommit(r)
        commit_id == Len(r.commits) + 1
        made == Commit(head_commit, tree_id, commit_id, message, UserName)
    IN  IF ~r.identity
        THEN [repo |-> r,
              ret |-> Ran(Err("Custom", "Git user not configured"), <<"signature">>)]
        ELSE IF head_commit = NoCommit
        THEN [repo |-> r,
              ret |-> Ran(Err("Git", <<>>), <<"signature", "write_tree", "head">>)]
        ELSE [repo |-> [r EXCEPT !.commits = Append(@, made),
                                 !.heads[r.head] = commit_id],
              ret |-> Ran(Ok(oid_to_string(commit_id)),
                          <<"signature", "write_tree", "head", "commit">>)]

git_commit(r, repo_path, message) ==
    IF ~open_repo(repo_path).ok
    THEN [repo |-> r, ret |-> Ran(open_repo(repo_path), <<>>)]
    ELSE create_commit(r, message)

AbbrevLen == 8

LogEntry(r, oid) ==
    [id |-> SubSeq(oid_to_string(oid), 1, AbbrevLen),
     message |-> r.commits[oid].message,
     author |-> r.commits[oid].author,
     time |-> r.commits[oid].time]

\* get_log that stops one commit late (i > count)
get_log_off_by_one(r, count) ==
    LET revwalk == History(r, HeadCommit(r))
        taken == SubSeq(revwalk, 1, IF count + 1 < Len(revwalk) THEN count + 1
                                    ELSE Len(revwalk))
    IN  IF HeadCommit(r) = NoCommit
        THEN [repo |-> r, ret |-> Ran(Err("Git", <<>>), <<"push_head">>)]
        ELSE [repo |-> r,
              ret |-> Ran(Ok([i \in 1..Len(taken) |-> LogEntry(r, taken[i])]),
                          <<"push_head">>)]

\* the revwalk from HEAD, cut after count commits
get_log(r, count) ==
    LET revwalk == History(r, HeadCommit(r))
        taken == SubSeq(revwalk, 1, IF count < Len(revwalk) THEN count
                                    ELSE Len(revwalk))
    IN  IF HeadCommit(r) = NoCommit
        THEN [repo |-> r, ret |-> Ran(Err("Git", <<>>), <<"push_head">>)]
        ELSE [repo |-> r,
              ret |-> Ran(Ok([i \in 1..Len(taken) |-> LogEntry(r, taken[i])]),
                          <<"push_head">>)]

DefaultLogCount == 20

\* count: Option<usize>, <<>> for None and <<n>> for Some(n)
git_log(r, repo_path, count) ==
    IF ~open_repo(repo_path).ok
    THEN [repo |-> r, ret |-> Ran(open_repo(repo_path), <<>>)]
    ELSE get_log(r, IF count = <<>> THEN DefaultLogCount ELSE count[1])

\* checkout_tree with the default (safe) strategy: content that differs from
\* both the HEAD tree and the target is a conflict and nothing is touched
checkout_branch(r, branch_name) ==
    LET target == TreeOf(r, r.heads[branch_name])
        base == TreeOf(r, HeadCommit(r))
    IN  IF r.heads[branch_name] = NoCommit
        THEN [repo |-> r, ret |-> Ran(Err("Git", <<>>), <<"find_branch">>)]
        ELSE IF target # base /\ r.workdir \notin {base, target}
        THEN [repo |-> r,
              ret |-> Ran(Err("Git", <<>>), <<"find_branch", "checkout_tree">>)]
        ELSE [repo |-> [r EXCEPT
                           !.workdir = IF target # base THEN target ELSE @,
                           !.index = IF target # base THEN target ELSE @,
                           !.head = branch_name],
              ret |-> Ran(Ok(Unit), <<"find_branch", "checkout_tree", "set_head">>)]

git_checkout(r, repo_path, branch_name) ==
    IF ~open_repo(repo_path).ok
    THEN [repo |-> r, ret |-> Ran(open_repo(repo_path), <<>>)]
    ELSE checkout_branch(r, branch_name)

create_branch(r, branch_name) ==
    IF HeadCommit(r) = NoCommit
    THEN [repo |-> r, ret |-> Ran(Err("Git", <<>>), <<"head">>)]
    ELSE IF r.heads[branch_name] # NoCommit
    THEN [repo |-> r, ret |-> Ran(Err("Git", <<>>), <<"head", "branch">>)]
    ELSE [repo |-> [r EXCEPT !.heads[branch_name] = HeadCommit(r)],
          ret |-> Ran(Ok(Unit), <<"head", "branch">>)]

git_create_branch(r, repo_path, branch_name) ==
    IF ~open_repo(repo_path).ok
    THEN [repo |-> r, ret |-> Ran(open_repo(repo_path), <<>>)]
    ELSE create_branch(r, branch_name)

Origin == "origin"
RemoteNames == {Origin, "upstream"}

\* Remote::fetch of one branch: FETCH_HEAD takes the remote's tip; a branch
\* the remote lacks leaves FETCH_HEAD empty (the remote-tracking references
\* that a fetch also moves are read by no command and are left out)
fetch(r, branch_name) ==
    [r EXCEPT !.fetch_head = r.remote[branch_name]]

\* Repository::merge_analysis of their commit against HEAD
merge_analysis(r, their) ==
    IF HeadCommit(r) = NoCommit THEN {"fast_forward", "unborn"}
    ELSE IF Reaches(r, HeadCommit(r), their) THEN {"up_to_date"}
    ELSE IF Reaches(r, their, HeadCommit(r)) THEN {"fast_forward", "normal"}
    ELSE {"normal"}

\* checkout_head with the force strategy: index and working tree become the
\* tree of the commit HEAD resolves to
checkout_head_force(r) ==
    [r EXCEPT !.workdir = TreeOf(r, HeadCommit(r)),
              !.index = TreeOf(r, HeadCommit(r))]

\* the branch of pull_branch taken when the analysis allows a fast-forward
fast_forward(r, branch_name, fetch_commit) ==
    IF r.heads[branch_name] = NoCommit
    THEN [repo |-> r,
          ret |-> Ran(Err("Git", <<>>),
                      <<"find_remote", "fetch", "merge_analysis", "find_reference">>)]
    ELSE [repo |-> checkout_head_force(
                       [r EXCEPT !.heads[branch_name] = fetch_commit]),
          ret |-> Ran(Ok(Unit),
                      <<"find_remote", "fetch", "merge_analysis", "find_reference",
                        "set_target", "checkout_head">>)]

pull_branch(r, remote_name, branch_name) ==
    LET fetched == fetch(r, branch_name)
        fetch_commit == fetched.fetch_head
        analysis == merge_analysis(fetched, fetch_commit)
    IN  IF remote_name # Origin
        THEN [repo |-> r, ret |-> Ran(Err("Git", <<>>), <<"find_remote">>)]
        ELSE IF fetch_commit = NoCommit
        THEN [repo |-> fetched,
              ret |-> Ran(Err("Git", <<>>), <<"find_remote", "fetch">>)]
        ELSE IF "fast_forward" \in analysis
        THEN fast_forward(fetched, branch_name, fetch_commit)
        ELSE IF "normal" \in analysis
        THEN [repo |-> fetched,
              ret |-> Ran(Err("Custom", "Manual merge required"),
                          <<"find_remote", "fetch", "merge_analysis">>)]
        ELSE [repo |-> fetched,
              ret |-> Ran(Ok(Unit), <<"find_remote", "fetch", "merge_analysis">>)]

\* remote, branch: Option<String>, None when absent
remote_or_default(remote) == IF remote = None THEN Origin ELSE remote

git_pull(r, repo_path, remote, branch) ==
    IF ~open_repo(repo_path).ok
    THEN [repo |-> r, ret |-> Ran(open_repo(repo_path), <<>>)]
    ELSE IF branch = None /\ HeadCommit(r) = NoCommit
    THEN [repo |-> r, ret |-> Ran(Err("Git", <<>>), <<"head">>)]
    ELSE pull_branch(r, remote_or_default(remote),
                     IF branch = None THEN r.head ELSE branch)

\* ------------------------------------------------------------------------
\* The git specification: the commands, and what happens around them
\* ------------------------------------------------------------------------

NoBranches == [b \in BranchNames |-> NoCommit]

\* a repository just initialized: HEAD names main, which has no commit yet
FreshRepo(identity) ==
    [commits |-> <<>>, heads |-> NoBranches, head |-> "main",
     index |-> EmptyTree, workdir |-> EmptyTree, fetch_head |-> NoCommit,
     remote |-> NoBranches, identity |-> identity]

\* a clone of a remote whose main holds one commit
ClonedRepo(identity) ==
    [commits |-> <<Commit(NoCommit, "tree1", 1, "init", "them")>>,
     heads |-> [NoBranches EXCEPT !["main"] = 1], head |-> "main",
     index |-> "tree1", workdir |-> "tree1", fetch_head |-> NoCommit,
     remote |-> [NoBranches EXCEPT !["main"] = 1], identity |-> identity]

InitGit ==
    /\ fs = [n \in {Root} |-> DirNode]
    /\ repo \in {FreshRepo(i) : i \in BOOLEAN} \cup {ClonedRepo(i) : i \in BOOLEAN}
    /\ pre = NoPre
    /\ call = NoCall
    /\ ret = NoRet

GitInvoke(c, out) ==
    /\ Idle
    /\ Len(out.repo.commits) <= MaxCommits
    /\ pre' = [fs |-> fs, repo |-> repo]
    /\ call' = c
    /\ repo' = out.repo
    /\ ret' = out.ret
    /\ UNCHANGED fs

Messages == {"msg"}
LogCounts == {<<>>, <<0>>, <<1>>, <<2>>}

GitCommit ==
    \E repo_path \in RepoPaths, message \in Messages :
        GitInvoke([op |-> "git_commit", repo_path |-> repo_path,
                   message |-> message],
                  git_commit(repo, repo_path, message))

GitLog ==
    \E repo_path \in RepoPaths, count \in LogCounts :
        GitInvoke([op |-> "git_log", repo_path |-> repo_path, count |-> count],
                  git_log(repo, repo_path, count))

GitCheckout ==
    \E repo_path \in RepoPaths, branch_name \in BranchNames :
        GitInvoke([op |-> "git_checkout", repo_path |-> repo_path,
                   branch_name |-> branch_name],
                  git_checkout(repo, repo_path, branch_name))

GitCreateBranch ==
    \E repo_path \in RepoPaths, branch_name \in BranchNames :
        GitInvoke([op |-> "git_create_branch", repo_path |-> repo_path,
                   branch_name |-> branch_name],
                  git_create_branch(repo, repo_path, branch_name))

GitPull ==
    \E repo_path \in RepoPaths, remote \in RemoteNames \cup {None},
       branch \in BranchNames \cup {None} :
        GitInvoke([op |-> "git_pull", repo_path |-> repo_path,
                   remote |-> remote, branch |-> branch],
                  git_pull(repo, repo_path, remote, branch))

\* the user edits the tracked content
EditWorkdir ==
    /\ Idle
    /\ \E t \in Trees : repo' = [repo EXCEPT !.workdir = t]
    /\ UNCHANGED <<fs, pre, call, ret>>

\* the user stages the working tree (git add)
StageWorkdir ==
    /\ Idle
    /\ repo' = [repo EXCEPT !.index = repo.workdir]
    /\ UNCHANGED <<fs, pre, call, ret>>

\* somebody else pushes a commit to a branch of the remote
RemoteCommit ==
    /\ Idle
    /\ Len(repo.commits) < MaxCommits
    /\ \E b \in BranchNames, t \in Trees :
           LET tip == IF repo.remote[b] # NoCommit THEN repo.remote[b]
                      ELSE repo.remote["main"]
               id == Len(repo.commits) + 1
           IN  repo' = [repo EXCEPT
                           !.commits = Append(@, Commit(tip, t, id, "theirs", "them")),
                           !.remote[b] = id]
    /\ UNCHANGED <<fs, pre, call, ret>>

NextGit ==
    \/ GitCommit
    \/ GitLog
    \/ GitCheckout
    \/ GitCreateBranch
    \/ GitPull
    \/ EditWorkdir
    \/ StageWorkdir
    \/ RemoteCommit
    \/ Respond

SpecGit == InitGit /\ [][NextGit]_vars

\* ------------------------------------------------------------------------
\* git_status: the label and the staged flag of a status entry
\* ------------------------------------------------------------------------

\* the bits of git2::Status
StatusFlags ==
    {"INDEX_NEW", "INDEX_MODIFIED", "INDEX_DELETED", "INDEX_RENAMED",
     "INDEX_TYPECHANGE", "WT_NEW", "WT_MODIFIED", "WT_DELETED",
     "WT_TYPECHANGE", "WT_RENAMED", "IGNORED", "CONFLICTED"}

\* the label with the working-tree-new test moved to the front
status_str_untracked_first(status) ==
    IF "WT_NEW" \in status THEN "untracked"
    ELSE IF "INDEX_NEW" \in status THEN "new"
    ELSE IF "INDEX_MODIFIED" \in status \/ "WT_MODIFIED" \in status THEN "modified"
    ELSE IF "INDEX_DELETED" \in status \/ "WT_DELETED" \in status THEN "deleted"
    ELSE IF "INDEX_RENAMED" \in status \/ "WT_RENAMED" \in status THEN "renamed"
    ELSE IF "CONFLICTED" \in status THEN "conflicted"
    ELSE "unknown"

status_str(status) ==
    IF "INDEX_NEW" \in status THEN "new"
    ELSE IF "INDEX_MODIFIED" \in status \/ "WT_MODIFIED" \in status THEN "modified"
    ELSE IF "INDEX_DELETED" \in status \/ "WT_DELETED" \in status THEN "deleted"
    ELSE IF "INDEX_RENAMED" \in status \/ "WT_RENAMED" \in status THEN "renamed"
    ELSE IF "WT_NEW" \in status THEN "untracked"
    ELSE IF "CONFLICTED" \in status THEN "conflicted"
    ELSE "unknown"

is_staged(status) ==
    \/ "INDEX_NEW" \in status
    \/ "INDEX_MODIFIED" \in status
    \/ "INDEX_DELETED" \in status
    \/ "INDEX_RENAMED" \in status

StatusEntry(entry) ==
    [path |-> entry.path,
     status |-> status_str(entry.status),
     staged |-> is_staged(entry.status)]

\* statuses: what Repository::statuses lists, one [path, status] per entry
get_status(statuses) ==
    Ok([i \in 1..Len(statuses) |-> StatusEntry(statuses[i])])

git_status(repo_path, statuses) ==
    IF ~open_repo(repo_path).ok
    THEN Ran(open_repo(repo_path), <<>>)
    ELSE Ran(get_status(statuses), <<"statuses">>)

InitStatus ==
    /\ fs = [n \in {Root} |-> DirNode]
    /\ repo = NoRepo
    /\ pre = NoPre
    /\ call = NoCall
    /\ ret = NoRet

StatusLists ==
    {<<>>} \cup {<<[path |-> "f", status |-> st]>> : st \in SUBSET StatusFlags}

GitStatus ==
    /\ Idle
    /\ \E repo_path \in RepoPaths, statuses \in StatusLists :
           /\ call' = [op |-> "git_status", repo_path |-> repo_path,
                       statuses |-> statuses]
           /\ ret' = git_status(repo_path, statuses)
    /\ pre' = [fs |-> fs, repo |-> repo]
    /\ UNCHANGED <<fs, repo>>

NextStatus ==
    \/ GitStatus
    \/ Respond

SpecStatus == InitStatus /\ [][NextStatus]_vars

\* the precedence of the labels: each label with the flags that select it
LabelRules ==
    << [label |-> "new", flags |-> {"INDEX_NEW"}],
       [label |-> "modified", flags |-> {"INDEX_MODIFIED", "WT_MODIFIED"}],
       [label |-> "deleted", flags |-> {"INDEX_DELETED", "WT_DELETED"}],
       [label |-> "renamed", flags |-> {"INDEX_RENAMED", "WT_RENAMED"}],
       [label |-> "untracked", flags |-> {"WT_NEW"}],
       [label |-> "conflicted", flags |-> {"CONFLICTED"}] >>

\* C6: git_status labels every combination of status flags by the first rule,
\* in the order new, modified, deleted, renamed, untracked, conflicted, that
\* one of its flags selects, and "unknown" when none does; staged is true
\* exactly when the entry is new, modified, deleted or renamed in the index.
C6_StatusLabels ==
    (call.op = "git_status" /\ ret.ok) =>
        /\ Len(ret.val) = Len(call.statuses)
        /\ \A i \in 1..Len(ret.val) :
               LET st == call.statuses[i].status
                   hit == {k \in 1..Len(LabelRules) : LabelRules[k].flags \cap st # {}}
               IN  /\ ret.val[i].path = call.statuses[i].path
                   /\ ret.val[i].status =
                          IF hit = {} THEN "unknown"
                          ELSE LabelRules[CHOOSE k \in hit : \A j \in hit : k <= j].label
                   /\ ret.val[i].staged <=>
                          (st \cap {"INDEX_NEW", "INDEX_MODIFIED",
                                    "INDEX_DELETED", "INDEX_RENAMED"} # {})

\* an entry new in the working tree and deleted in the index: "deleted" wins
\* over "untracked", and it is staged
C6_Witness ==
    /\ call.op = "git_status"
    /\ ret.ok
    /\ Len(ret.val) = 1
    /\ call.statuses[1].status = {"WT_NEW", "INDEX_DELETED", "CONFLICTED"}
    /\ ret.val[1].status = "deleted"
    /\ ret.val[1].staged

\* ------------------------------------------------------------------------
\* Properties of the git commands
\* ------------------------------------------------------------------------

\* the command reached the repository
Opened == call.repo_path = RepoDir

\* the branch a git_pull call names, after defaulting to HEAD's
PulledBranch ==
    IF call.branch = None THEN pre.repo.head ELSE call.branch

\* a git_pull that resolved its repository, its remote and its branch
PullResolved ==
    /\ call.op = "git_pull"
    /\ Opened
    /\ remote_or_default(call.remote) = Origin
    /\ (call.branch = None => HeadCommit(pre.repo) # NoCommit)

\* both tips exist and neither is reachable from the other
Diverged(r, mine, theirs) ==
    /\ mine # NoCommit
    /\ theirs # NoCommit
    /\ ~Reaches(r, mine, theirs)
    /\ ~Reaches(r, theirs, mine)

\* C3: when the remote branch has diverged from the local one, git_pull
\* fails with the "manual merge required" error, makes no merge commit and
\* leaves the local branch reference where it was.
C3_DivergedPullFails ==
    (/\ PullResolved
     /\ Diverged(pre.repo, pre.repo.heads[PulledBranch],
                 pre.repo.remote[PulledBranch])) =>
        /\ ~ret.ok
        /\ ret.err = "Custom"
        /\ ret.msg = "Manual merge required"
        /\ repo.commits = pre.repo.commits
        /\ repo.heads[PulledBranch] = pre.repo.heads[PulledBranch]

\* the analysis git_pull computes for the commit it fetches
PullAnalysis ==
    merge_analysis(pre.repo, pre.repo.remote[PulledBranch])

\* C4: when git_pull finds that a fast-forward is possible and returns
\* success, refs/heads/<branch> points at the fetched commit and the working
\* tree is that commit's tree.
C4_FastForwardUpdates ==
    (/\ PullResolved
     /\ pre.repo.remote[PulledBranch] # NoCommit
     /\ "fast_forward" \in PullAnalysis
     /\ ret.ok) =>
        /\ repo.heads[PulledBranch] = pre.repo.remote[PulledBranch]
        /\ repo.workdir = TreeOf(repo, pre.repo.remote[PulledBranch])

\* C10: whenever git_pull moves a local branch reference, the new target is
\* the old one or a descendant of it.
C10_PullOnlyFastForwards ==
    call.op = "git_pull" =>
        \A b \in BranchNames :
            repo.heads[b] # pre.repo.heads[b] =>
                Reaches(repo, repo.heads[b], pre.repo.heads[b])

IsHex(str) == \A i \in 1..Len(str) : \E d \in 1..Len(HexDigits) : HexDigits[d] = str[i]

\* what holds after a git_commit that succeeded on top of the commit base
Committed(base) ==
    /\ ret.ok
    /\ Len(repo.commits) = Len(pre.repo.commits) + 1
    /\ LET new == Len(repo.commits)
       IN  /\ repo.commits[new].parent = base
           /\ repo.commits[new].tree = pre.repo.index
           /\ \A c \in 1..Len(pre.repo.commits) :
                  repo.commits[c] = pre.repo.commits[c]
           /\ HeadCommit(repo) = new
           /\ repo.head = pre.repo.head
    /\ Len(ret.val) = 40
    /\ IsHex(ret.val)
    /\ get_log(repo, 1).ret.ok
    /\ SubSeq(ret.val, 1, 8) = get_log(repo, 1).ret.val[1].id

\* what holds after a git_commit that failed
NotCommitted ==
    /\ ~ret.ok
    /\ repo = pre.repo

\* C5 as stated: with a configured identity git_commit succeeds, the new
\* commit's only parent is the HEAD commit of the moment of the call, HEAD
\* moves to it, and the 40 hex digits returned start with the id of the first
\* entry of a following git_log; without an identity it fails with the
\* configuration error and HEAD stays.
C5_CommitSucceeds ==
    (call.op = "git_commit" /\ Opened) =>
        IF pre.repo.identity
        THEN Committed(HeadCommit(pre.repo))
        ELSE NotCommitted /\ ret.err = "Custom"
                          /\ ret.msg = "Git user not configured"

\* C5 (amended): the same when HEAD resolves to a commit; on a repository
\* that has no commit yet git_commit fails and changes nothing.
C5_CommitSucceedsAmended ==
    (call.op = "git_commit" /\ Opened) =>
        IF ~pre.repo.identity
        THEN NotCommitted /\ ret.err = "Custom"
                          /\ ret.msg = "Git user not configured"
        ELSE IF HeadCommit(pre.repo) # NoCommit
        THEN Committed(HeadCommit(pre.repo))
        ELSE NotCommitted /\ ret.err = "Git"

\* a commit of a changed index on the branch feature, on top of a commit
\* that has a parent
C5_Witness ==
    /\ call.op = "git_commit"
    /\ ret.ok
    /\ pre.repo.head = "feature"
    /\ pre.repo.heads["feature"] # pre.repo.heads["main"]
    /\ pre.repo.commits[HeadCommit(pre.repo)].parent # NoCommit
    /\ pre.repo.index # TreeOf(pre.repo, HeadCommit(pre.repo))

Min(a, b) == IF a < b THEN a ELSE b

\* the count a git_log call asks for
AskedCount == IF call.count = <<>> THEN 20 ELSE call.count[1]

\* what holds of a git_log result on a history of n commits from HEAD
Logged(n) ==
    /\ ret.ok
    /\ Len(ret.val) = Min(AskedCount, n)
    /\ \A i \in 1..Len(ret.val) :
           LET c == IF i = 1 THEN HeadCommit(pre.repo)
                    ELSE pre.repo.commits[History(pre.repo, HeadCommit(pre.repo))[i - 1]].parent
           IN  /\ ret.val[i].id = SubSeq(oid_to_string(c), 1, 8)
               /\ ret.val[i].time = pre.repo.commits[c].time
               /\ ret.val[i].message = pre.repo.commits[c].message
               /\ ret.val[i].author = pre.repo.commits[c].author
    /\ \A i \in 1..(Len(ret.val) - 1) : ret.val[i].time > ret.val[i + 1].time
    /\ repo = pre.repo

\* C9 as stated: on a history of n commits reachable from HEAD, git_log
\* with count c (20 when omitted) returns exactly min(c, n) entries, the
\* most recent commits from HEAD backwards, newest first, each id the first
\* 8 hex digits of the commit id.
C9_LogReturnsRecent ==
    (call.op = "git_log" /\ Opened) =>
        Logged(Len(History(pre.repo, HeadCommit(pre.repo))))

\* C9 (amended): the same for n >= 1; on a repository that has no commit yet
\* (n = 0) git_log fails.
C9_LogReturnsRecentAmended ==
    (call.op = "git_log" /\ Opened) =>
        IF HeadCommit(pre.repo) # NoCommit
        THEN Logged(Len(History(pre.repo, HeadCommit(pre.repo))))
        ELSE ~ret.ok /\ ret.err = "Git" /\ repo = pre.repo

\* count 2 on a history of three commits that is not the whole store
C9_Witness ==
    /\ call.op = "git_log"
    /\ ret.ok
    /\ call.count = <<2>>
    /\ Len(ret.val) = 2
    /\ Len(History(pre.repo, HeadCommit(pre.repo))) = 3

====
